---------------------------- MODULE Spec2Model ----------------------------
(***************************************************************************)
(* Workflow orchestration engine of onboardai:                             *)
(*   - MCPToolManager   (services/openai_agents.py): the tool-service      *)
(*     registry that starts the provider processes, discovers their tools  *)
(*     and wraps each tool in a callable;                                  *)
(*   - AgentsManager    (services/autogen_manager.py): lazy initialization,*)
(*     process_workflow and the conversation store;                        *)
(*   - WorkflowGraph    (services/workflow_graph.py): the task graph       *)
(*     input -> coordinator -> specialist -> summarize -> END.             *)
(*                                                                         *)
(* Python strings that the code splits on "_" are modelled by their list   *)
(* of "_"-separated words (Words).                                         *)
(***************************************************************************)
EXTENDS Integers, Sequences, FiniteSets, TLC

VARIABLES
    envAttrs,            \* attributes defined on config.env_config.Config
    sessions,            \* MCPToolManager.sessions: the keys (server names)
    connection_errors,   \* MCPToolManager.connection_errors: server -> str(e) (NoError: absent)
    available_tools,     \* MCPToolManager.available_tools: set of tool keys
    tool_functions,      \* MCPToolManager.tool_functions: tool key -> closure (server, tool)
    session_contexts,    \* MCPToolManager._session_contexts: the keys (server names)
    procs,               \* server -> number of provider processes started by stdio_client
    passes,              \* number of times initialize_mcp_servers entered its server loop
    attemptsOk,          \* server -> number of iterations of the server loop that ended without exception
    attemptsFailed,      \* server -> number of iterations of the server loop that ended in "except"
    mgrExists,           \* _agents_manager_instance is not None
    mgrInitialized,      \* AgentsManager._initialized
    pc,                  \* task -> position of the call it runs
    call,                \* task -> the top-level call it runs
    ret,                 \* task -> where AgentsManager.initialize returns to
    pos,                 \* task -> index in mcp_servers of the server being attempted
    lastCall,            \* observation of the last registry API call (until the next step)
    faults,              \* environment: server -> the stages of its connection that can fail
    backend,             \* environment: what the LLM backend can return to generate_response
    graphInitialized,    \* WorkflowGraph._initialized
    graph,               \* WorkflowGraph.graph: the task whose call compiled it (0: None)
    graphOf,             \* task -> the compiled graph its run was started on
    resumed,             \* task -> whose checkpoint its run was started from
    checkpoint,          \* compiled graph -> what its InMemorySaver holds for thread "1"
    summarizer,          \* task -> the reply to the LLM call of its summarize node
    inserted,            \* task -> the keys its run has stored in conversation_histories
    calls,               \* number of execute_workflow calls so far
    inp,                 \* task -> arguments of its execute_workflow call
    st,                  \* task -> the State of its run
    path,                \* task -> the nodes its run has executed, in order
    route,               \* task -> the key router_input_handler returned
    raised,              \* task -> the node in which process_workflow raised
    result,              \* task -> what its last call returned
    conversation_histories,  \* AgentsManager.conversation_histories
    clock,               \* datetime.now(), as a counter
    cont,                \* task -> its continue_conversation call
    continues,           \* number of continue_conversation calls so far
    sessionExits,        \* server -> number of awaits of its session_ctx.__aexit__
    stdioExits,          \* server -> number of awaits of its stdio.__aexit__
    cleanups,            \* number of cleanup calls so far
    inv,                 \* task -> the session.call_tool request it awaits
    upsert               \* the kb_upsert_text call of the knowledge base provider

registryVars == <<sessions, connection_errors, available_tools, tool_functions,
                  session_contexts, procs, passes, attemptsOk, attemptsFailed>>
managerVars == <<mgrExists, mgrInitialized>>
taskVars == <<pc, call, ret, pos>>
graphVars == <<graphInitialized, graph, graphOf, resumed, checkpoint, summarizer, inserted,
               calls, inp, st, path, route, raised, result>>
storeVars == <<conversation_histories, clock>>
chatVars == <<cont, continues>>
shutdownVars == <<sessionExits, stdioExits, cleanups, inv>>
vars == <<envAttrs, sessions, connection_errors, available_tools, tool_functions,
          session_contexts, procs, passes, attemptsOk, attemptsFailed,
          mgrExists, mgrInitialized, pc, call, ret, pos, lastCall, faults, backend,
          graphInitialized, graph, graphOf, resumed, checkpoint, summarizer, inserted,
          calls, inp, st, path, route, raised, result,
          conversation_histories, clock, cont, continues,
          sessionExits, stdioExits, cleanups, inv, upsert>>

----------------------------------------------------------------------------
(* Bounds *)

MaxTasks == 2

\* cleanup calls in one behaviour
MaxCleanups == 2

\* documents in one kb_upsert_text call
MaxDocs == 4

\* get_connection_status calls in a row
MaxStatusCalls == 2

\* execute_workflow calls in one behaviour
MaxCalls == 2

\* continue_conversation calls in one behaviour
MaxContinues == 2

Tasks == 1..MaxTasks

----------------------------------------------------------------------------
(* Python values *)

PyNone == "<None>"

\* Python truthiness of an Optional[str]
Falsy(v) == v = PyNone \/ v = ""

----------------------------------------------------------------------------
(* config.env_config *)

\* the attributes the engine reads from the config singleton
EnvReads == {"GEMINI_API_KEY", "DATABASE_URL", "PINECONE_API_KEY"}

----------------------------------------------------------------------------
(* MCPToolManager: the configured providers and their catalogs *)

Database == "database"
KnowledgeBase == "knowledge_base"

\* mcp_servers, in dict order
ServerOrder == <<Database, KnowledgeBase>>

Servers == {ServerOrder[i] : i \in 1..Len(ServerOrder)}

\* the tools each provider declares with @mcp.tool() (a sample of each catalog)
Catalog(s) ==
    IF s = Database THEN {"get_user", "raw_read"}
    ELSE IF s = KnowledgeBase THEN {"kb_query"}
    ELSE {}

ToolNames == UNION {Catalog(s) : s \in Servers}

\* str.split("_") of the names the model uses
Words(name) ==
    CASE name = "database" -> <<"database">>
      [] name = "knowledge_base" -> <<"knowledge", "base">>
      [] name = "slack" -> <<"slack">>
      [] name = "get_user" -> <<"get", "user">>
      [] name = "raw_read" -> <<"raw", "read">>
      [] name = "kb_query" -> <<"kb", "query">>
      [] OTHER -> <<name>>

\* f"{name}_{tool.name}", as its "_"-separated words
ToolKey(name, tool) == Words(name) \o Words(tool)

\* the awaits of one iteration of the server loop
Stages == {"spawn", "handshake", "catalog"}

NoError == "<absent>"
ErrSpawn == "spawn failed"
ErrHandshake == "handshake failed"
ErrCatalog == "list_tools failed"


\* f"MCP server '{server_name}' not connected"
NotConnectedMsg(server_name) == "MCP server '" \o server_name \o "' not connected"

\* what session.call_tool can do: raise, or return a result whose text content
\* is JSON, is not JSON, or is missing
CallOutcomes ==
    { [kind |-> "raises", text |-> "provider: tool crashed"],
      [kind |-> "json", text |-> "{\"ok\": true}"],
      [kind |-> "text", text |-> "plain text"],
      [kind |-> "empty", text |-> "CallToolResult(content=[])"] }

\* json.loads on the texts the model uses
JsonLoads(text) == IF text = "{\"ok\": true}" THEN [ok |-> TRUE] ELSE [value |-> text]

NoCall == [op |-> "none"]

\* {} of Python
EmptyDict == [k \in {} |-> ""]

----------------------------------------------------------------------------
(* Initial state: the module-level singletons right after import *)

\* the State of a task that runs no workflow
NoState == [workflow_type |-> PyNone, user_id |-> PyNone, metadata |-> EmptyDict,
            messages |-> <<>>]

NoInput == [workflow_type |-> PyNone, data |-> EmptyDict, user_id |-> PyNone]

NoResult == [status |-> "<no call>"]

\* no checkpoint saved for the thread
NoCheckpoint == [saved |-> FALSE]

\* the task runs no continue_conversation call
NoCont == [id |-> PyNone]

\* the knowledge base provider has served no kb_upsert_text call
NoUpsert == [pc |-> "idle"]

\* the task awaits no session.call_tool
NoInv == [server |-> PyNone]

\* the singletons and the tasks, none of which has started
InitSingletons ==
    /\ graphInitialized = FALSE
    /\ graph = 0
    /\ graphOf = [t \in Tasks |-> 0]
    /\ resumed = [t \in Tasks |-> NoCheckpoint]
    /\ checkpoint = [g \in Tasks |-> NoCheckpoint]
    /\ summarizer = [t \in Tasks |-> "none"]
    /\ inserted = [t \in Tasks |-> <<>>]
    /\ cont = [t \in Tasks |-> NoCont]
    /\ continues = 0
    /\ calls = 0
    /\ inp = [t \in Tasks |-> NoInput]
    /\ path = [t \in Tasks |-> <<>>]
    /\ route = [t \in Tasks |-> PyNone]
    /\ raised = [t \in Tasks |-> "none"]
    /\ result = [t \in Tasks |-> NoResult]
    /\ conversation_histories = EmptyDict
    /\ clock = 0
    /\ sessions = {}
    /\ connection_errors = [s \in Servers |-> NoError]
    /\ available_tools = {}
    /\ tool_functions = {}
    /\ session_contexts = {}
    /\ procs = [s \in Servers |-> 0]
    /\ passes = 0
    /\ attemptsOk = [s \in Servers |-> 0]
    /\ attemptsFailed = [s \in Servers |-> 0]
    /\ mgrExists = FALSE
    /\ mgrInitialized = FALSE
    /\ pc = [t \in Tasks |-> "idle"]
    /\ call = [t \in Tasks |-> "none"]
    /\ ret = [t \in Tasks |-> "none"]
    /\ pos = [t \in Tasks |-> 0]
    /\ lastCall = NoCall
    /\ sessionExits = [s \in Servers |-> 0]
    /\ stdioExits = [s \in Servers |-> 0]
    /\ cleanups = 0
    /\ inv = [t \in Tasks |-> NoInv]
    /\ upsert = NoUpsert

\* the attributes the Config object has are the deployment's
InitProgram ==
    /\ InitSingletons
    /\ envAttrs \in {EnvReads, EnvReads \ {"DATABASE_URL"}, EnvReads \ {"GEMINI_API_KEY"}}
    /\ st = [t \in Tasks |-> NoState]

\* every stage of every provider's connection can fail
InitRegistry ==
    /\ InitProgram
    /\ faults = [s \in Servers |-> Stages]
    /\ backend = {"text"}

----------------------------------------------------------------------------
(* AgentsManager.initialize and MCPToolManager.initialize_mcp_servers *)

\* AgentsManager.initialize entered by task t, up to its first await: returns at
\* once when already initialized; building mcp_servers reads the config and
\* raises AttributeError when an attribute is not defined
EnterInitialize(t, r) ==
    /\ ret' = [ret EXCEPT ![t] = r]
    /\ IF mgrInitialized
       THEN /\ pc' = [pc EXCEPT ![t] = "init_done"]
            /\ pos' = pos
            /\ passes' = passes
       ELSE IF ~({"DATABASE_URL", "PINECONE_API_KEY"} \subseteq envAttrs)
       THEN /\ pc' = [pc EXCEPT ![t] = "init_raised"]
            /\ pos' = pos
            /\ passes' = passes
       ELSE /\ pc' = [pc EXCEPT ![t] = "mcp_start"]
            /\ pos' = [pos EXCEPT ![t] = 1]
            /\ passes' = passes + 1

\* the end of one iteration of "for name, params in mcp_servers.items()"; after
\* the last one _setup_agents runs and _initialized is set, with no await between
NextServer(t) ==
    IF pos[t] < Len(ServerOrder)
    THEN /\ pos' = [pos EXCEPT ![t] = @ + 1]
         /\ pc' = [pc EXCEPT ![t] = "mcp_start"]
         /\ mgrInitialized' = mgrInitialized
    ELSE /\ pos' = [pos EXCEPT ![t] = 0]
         /\ pc' = [pc EXCEPT ![t] = "init_done"]
         /\ mgrInitialized' = TRUE

\* whether an await of the connection of server name succeeds (TRUE) or raises
StageOutcomes(name, stage) == IF stage \in faults[name] THEN BOOLEAN ELSE {TRUE}

\* except Exception as e: self.connection_errors[name] = str(e)
RecordError(name, msg) == [connection_errors EXCEPT ![name] = msg]

\* a variant in which the exception leaves the server loop: no later provider
\* is attempted
AttemptFails_abortsLoop(t, name, msg) ==
    /\ connection_errors' = RecordError(name, msg)
    /\ attemptsFailed' = [attemptsFailed EXCEPT ![name] = @ + 1]
    /\ attemptsOk' = attemptsOk
    /\ pos' = [pos EXCEPT ![t] = 0]
    /\ pc' = [pc EXCEPT ![t] = "init_done"]
    /\ mgrInitialized' = TRUE

\* the iteration for server name ends in its "except" branch, with str(e) = msg
AttemptFails(t, name, msg) ==
    /\ connection_errors' = RecordError(name, msg)
    /\ attemptsFailed' = [attemptsFailed EXCEPT ![name] = @ + 1]
    /\ attemptsOk' = attemptsOk
    /\ NextServer(t)

\* await stdio_ctx.__aenter__(): start the provider process
StdioEnter(t) ==
    /\ pc[t] = "mcp_start"
    /\ LET name == ServerOrder[pos[t]] IN
       \E ok \in StageOutcomes(name, "spawn") :
          IF ok
          THEN /\ procs' = [procs EXCEPT ![name] = @ + 1]
               /\ pc' = [pc EXCEPT ![t] = "mcp_handshake"]
               /\ UNCHANGED <<connection_errors, attemptsOk, attemptsFailed, pos,
                               mgrInitialized>>
          ELSE /\ AttemptFails(t, name, ErrSpawn)
               /\ UNCHANGED procs
    /\ lastCall' = NoCall
    /\ UNCHANGED <<envAttrs, sessions, available_tools, tool_functions,
                   session_contexts, passes, mgrExists, call, ret>>
    /\ UNCHANGED <<faults, backend, graphVars, storeVars, chatVars, shutdownVars, upsert>>

\* await session_ctx.__aenter__(); await session.initialize(); then the
\* contexts and the session are stored
SessionInitialize(t) ==
    /\ pc[t] = "mcp_handshake"
    /\ LET name == ServerOrder[pos[t]] IN
       \E ok \in StageOutcomes(name, "handshake") :
          IF ok
          THEN /\ session_contexts' = session_contexts \cup {name}
               /\ sessions' = sessions \cup {name}
               /\ pc' = [pc EXCEPT ![t] = "mcp_list"]
               /\ UNCHANGED <<connection_errors, attemptsOk, attemptsFailed, pos,
                               mgrInitialized>>
          ELSE /\ AttemptFails(t, name, ErrHandshake)
               /\ UNCHANGED <<session_contexts, sessions>>
    /\ lastCall' = NoCall
    /\ UNCHANGED <<envAttrs, available_tools, tool_functions, procs, passes, mgrExists,
                   call, ret>>
    /\ UNCHANGED <<faults, backend, graphVars, storeVars, chatVars, shutdownVars, upsert>>

\* self._create_tool_function(name, tool.name, ...): the closure's bindings
CreateToolFunction(server_name, tool_name) ==
    [key |-> ToolKey(server_name, tool_name), server |-> server_name, tool |-> tool_name]

\* await session.list_tools(); then every tool is registered
ListTools(t) ==
    /\ pc[t] = "mcp_list"
    /\ LET name == ServerOrder[pos[t]] IN
       \E ok \in StageOutcomes(name, "catalog") :
          IF ok
          THEN /\ available_tools' =
                     available_tools \cup {ToolKey(name, tool) : tool \in Catalog(name)}
               /\ tool_functions' =
                     tool_functions \cup {CreateToolFunction(name, tool) : tool \in Catalog(name)}
               /\ attemptsOk' = [attemptsOk EXCEPT ![name] = @ + 1]
               /\ NextServer(t)
               /\ UNCHANGED <<connection_errors, attemptsFailed>>
          ELSE /\ AttemptFails(t, name, ErrCatalog)
               /\ UNCHANGED <<available_tools, tool_functions>>
    /\ lastCall' = NoCall
    /\ UNCHANGED <<envAttrs, sessions, session_contexts, procs, passes, mgrExists,
                   call, ret>>
    /\ UNCHANGED <<faults, backend, graphVars, storeVars, chatVars, shutdownVars, upsert>>

----------------------------------------------------------------------------
(* Callers of AgentsManager.initialize *)

\* the tasks are interchangeable: a new call runs as the lowest idle task
FreeTask(t) == pc[t] = "idle" /\ \A u \in Tasks : u < t => pc[u] # "idle"

\* get_agents_manager(): creates and initializes the singleton when there is
\* none; AgentsManager() reads env.GEMINI_API_KEY
GetAgentsManagerCall(t) ==
    /\ FreeTask(t)
    /\ call' = [call EXCEPT ![t] = "get_agents_manager"]
    /\ IF mgrExists
       THEN /\ pc' = [pc EXCEPT ![t] = "init_done"]
            /\ ret' = [ret EXCEPT ![t] = "caller"]
            /\ UNCHANGED <<mgrExists, pos, passes>>
       ELSE IF "GEMINI_API_KEY" \notin envAttrs
       THEN /\ pc' = [pc EXCEPT ![t] = "init_raised"]
            /\ ret' = [ret EXCEPT ![t] = "caller"]
            /\ UNCHANGED <<mgrExists, pos, passes>>
       ELSE /\ mgrExists' = TRUE
            /\ EnterInitialize(t, "caller")
    /\ lastCall' = NoCall
    /\ UNCHANGED <<envAttrs, sessions, connection_errors, available_tools, tool_functions,
                   session_contexts, procs, attemptsOk, attemptsFailed, mgrInitialized>>
    /\ UNCHANGED <<faults, backend, graphVars, storeVars, chatVars, shutdownVars, upsert>>

\* the first lines of process_workflow, process_simple_query and
\* continue_conversation: "if not self._initialized: await self.initialize()"
LazyInitCall(t) ==
    /\ FreeTask(t)
    /\ mgrExists
    /\ call' = [call EXCEPT ![t] = "lazy_initialize"]
    /\ EnterInitialize(t, "caller")
    /\ lastCall' = NoCall
    /\ UNCHANGED <<envAttrs, sessions, connection_errors, available_tools, tool_functions,
                   session_contexts, procs, attemptsOk, attemptsFailed, managerVars>>
    /\ UNCHANGED <<faults, backend, graphVars, storeVars, chatVars, shutdownVars, upsert>>

\* the call returns (or raises) to its caller
ReturnToCaller(t) ==
    /\ pc[t] \in {"init_done", "init_raised"}
    /\ ret[t] = "caller"
    /\ pc' = [pc EXCEPT ![t] = "idle"]
    /\ call' = [call EXCEPT ![t] = "none"]
    /\ ret' = [ret EXCEPT ![t] = "none"]
    /\ lastCall' = NoCall
    /\ UNCHANGED <<envAttrs, registryVars, managerVars, pos>>
    /\ UNCHANGED <<faults, backend, graphVars, storeVars, chatVars, shutdownVars, upsert>>

----------------------------------------------------------------------------
(* MCPToolManager: the tool callables and the queries *)

\* a variant without the "except Exception" around the call: the provider's
\* exception reaches the caller
tool_function_propagates(server_name, tool_name, outcome) ==
    IF server_name \notin sessions
    THEN [error |-> NotConnectedMsg(server_name),
          details |-> IF connection_errors[server_name] = NoError
                      THEN "Unknown error"
                      ELSE connection_errors[server_name]]
    ELSE CASE outcome.kind = "raises" -> [raised |-> outcome.text]
           [] outcome.kind = "json" -> JsonLoads(outcome.text)
           [] outcome.kind = "text" -> [result |-> outcome.text]
           [] OTHER -> [result |-> outcome.text]

\* tool_function(**kwargs) of the closure (server_name, tool_name), where
\* outcome is what session.call_tool does
tool_function(server_name, tool_name, outcome) ==
    IF server_name \notin sessions
    THEN [error |-> NotConnectedMsg(server_name),
          details |-> IF connection_errors[server_name] = NoError
                      THEN "Unknown error"
                      ELSE connection_errors[server_name]]
    ELSE CASE outcome.kind = "raises" ->
                [error |-> outcome.text, tool |-> tool_name, server |-> server_name]
           [] outcome.kind = "json" -> JsonLoads(outcome.text)
           [] outcome.kind = "text" -> [result |-> outcome.text]
           [] OTHER -> [result |-> outcome.text]

\* an Optional[List[str]] argument: None, or a list
NoList == [none |-> TRUE, names |-> <<>>]
ListOf(names) == [none |-> FALSE, names |-> names]

\* Python truthiness of an Optional[List[str]]
ListFalsy(l) == l.none \/ Len(l.names) = 0

\* "x in l" for a list l
InList(x, l) == \E i \in 1..Len(l.names) : l.names[i] = x

\* get_tools_for_agent(server_names): the tool functions it returns;
\* server_name is tool_key.split("_")[0]
get_tools_for_agent(server_names) ==
    { fn \in tool_functions :
        LET server_name == Head(fn.key) IN
        ~(~ListFalsy(server_names) /\ ~InList(server_name, server_names)) }

\* get_connection_status()
get_connection_status ==
    [connected |-> sessions,
     failed |-> {<<s, connection_errors[s]>> : s \in {x \in Servers : connection_errors[x] # NoError}},
     total_tools |-> Cardinality(available_tools)]

\* the server_names lists the callers pass (and None)
TagInputs ==
    { NoList, ListOf(<<>>), ListOf(<<"database">>), ListOf(<<"slack", "database">>),
      ListOf(<<"knowledge_base">>) }

\* some caller invokes a discovered tool callable
InvokeTool ==
    /\ \E fn \in tool_functions : \E outcome \in CallOutcomes :
          lastCall' = [op |-> "tool_function", server |-> fn.server, tool |-> fn.tool,
                       outcome |-> outcome,
                       result |-> tool_function(fn.server, fn.tool, outcome)]
    /\ UNCHANGED <<envAttrs, registryVars, managerVars, taskVars>>
    /\ UNCHANGED <<faults, backend, graphVars, storeVars, chatVars, shutdownVars, upsert>>

\* some caller asks for the tools of a list of servers
GetToolsForAgent ==
    /\ \E tags \in TagInputs :
          lastCall' = [op |-> "get_tools_for_agent", tags |-> tags,
                       result |-> get_tools_for_agent(tags)]
    /\ UNCHANGED <<envAttrs, registryVars, managerVars, taskVars>>
    /\ UNCHANGED <<faults, backend, graphVars, storeVars, chatVars, shutdownVars, upsert>>

\* the status calls that follow one another with no other step between them
StatusCallsInARow == IF lastCall.op = "get_connection_status" THEN lastCall.n ELSE 0

\* a variant that hands the recorded errors over once: it empties
\* connection_errors after reporting them
GetConnectionStatus_drainsErrors ==
    /\ StatusCallsInARow < MaxStatusCalls
    /\ lastCall' = [op |-> "get_connection_status", n |-> StatusCallsInARow + 1,
                    result |-> get_connection_status]
    /\ connection_errors' = [s \in Servers |-> NoError]
    /\ UNCHANGED <<envAttrs, sessions, available_tools, tool_functions, session_contexts,
                   procs, passes, attemptsOk, attemptsFailed, managerVars, taskVars>>
    /\ UNCHANGED <<faults, backend, graphVars, storeVars, chatVars, shutdownVars, upsert>>

\* some caller asks for the connection status
GetConnectionStatus ==
    /\ StatusCallsInARow < MaxStatusCalls
    /\ lastCall' = [op |-> "get_connection_status", n |-> StatusCallsInARow + 1,
                    result |-> get_connection_status]
    /\ UNCHANGED <<envAttrs, registryVars, managerVars, taskVars>>
    /\ UNCHANGED <<faults, backend, graphVars, storeVars, chatVars, shutdownVars, upsert>>

----------------------------------------------------------------------------
(* The registry with concurrent callers of the lazy initialization *)

NextRegistry ==
    \/ \E t \in Tasks : GetAgentsManagerCall(t)
    \/ \E t \in Tasks : LazyInitCall(t)
    \/ \E t \in Tasks : StdioEnter(t)
    \/ \E t \in Tasks : SessionInitialize(t)
    \/ \E t \in Tasks : ListTools(t)
    \/ \E t \in Tasks : ReturnToCaller(t)
    \/ InvokeTool
    \/ GetToolsForAgent
    \/ GetConnectionStatus

SpecRegistry == InitRegistry /\ [][NextRegistry]_vars

----------------------------------------------------------------------------
(* MCPToolManager.cleanup, and tool callables whose call_tool is awaited *)

\* what "for name, contexts in self._session_contexts.items()" iterates over:
\* the stored names in insertion order, which is the order of mcp_servers when
\* one initialization stored them
ContextNames == SelectSeq(ServerOrder, LAMBDA s : s \in session_contexts)

\* the end of one iteration of the loop of cleanup; after the last one cleanup
\* returns None
CleanupNext(t) ==
    IF pos[t] < Len(ContextNames)
    THEN /\ pos' = [pos EXCEPT ![t] = @ + 1]
         /\ pc' = [pc EXCEPT ![t] = "cleanup_session"]
         /\ call' = call
         /\ lastCall' = NoCall
    ELSE /\ pos' = [pos EXCEPT ![t] = 0]
         /\ pc' = [pc EXCEPT ![t] = "idle"]
         /\ call' = [call EXCEPT ![t] = "none"]
         /\ lastCall' = [op |-> "cleanup", raised |-> FALSE]

\* a variant in which the exception of a close leaves the loop and reaches the
\* caller of cleanup
CleanupExcept_propagates(t) ==
    /\ pos' = [pos EXCEPT ![t] = 0]
    /\ pc' = [pc EXCEPT ![t] = "idle"]
    /\ call' = [call EXCEPT ![t] = "none"]
    /\ lastCall' = [op |-> "cleanup", raised |-> TRUE]

\* except Exception as e: print(...), and the loop goes on
CleanupExcept(t) ==
    CleanupNext(t)

\* cleanup() is called once the manager is initialized; it returns at once when
\* no contexts are stored
CleanupCall(t) ==
    /\ FreeTask(t)
    /\ mgrInitialized
    /\ cleanups < MaxCleanups
    /\ cleanups' = cleanups + 1
    /\ IF ContextNames = <<>>
       THEN /\ lastCall' = [op |-> "cleanup", raised |-> FALSE]
            /\ UNCHANGED <<pc, call, pos>>
       ELSE /\ pc' = [pc EXCEPT ![t] = "cleanup_session"]
            /\ call' = [call EXCEPT ![t] = "cleanup"]
            /\ pos' = [pos EXCEPT ![t] = 1]
            /\ lastCall' = NoCall
    /\ UNCHANGED <<envAttrs, registryVars, managerVars, ret, sessionExits, stdioExits, inv>>
    /\ UNCHANGED <<faults, backend, graphVars, storeVars, chatVars, upsert>>

\* await contexts['session_ctx'].__aexit__(None, None, None): when it raises,
\* the "except" branch is taken and the stdio context of this name is skipped
CleanupSessionExit(t) ==
    /\ pc[t] = "cleanup_session"
    /\ LET name == ContextNames[pos[t]] IN
       /\ sessionExits' = [sessionExits EXCEPT ![name] = @ + 1]
       /\ \E ok \in BOOLEAN :
             IF ok
             THEN /\ pc' = [pc EXCEPT ![t] = "cleanup_stdio"]
                  /\ lastCall' = NoCall
                  /\ UNCHANGED <<call, pos>>
             ELSE CleanupExcept(t)
    /\ UNCHANGED <<envAttrs, registryVars, managerVars, ret, stdioExits, cleanups, inv>>
    /\ UNCHANGED <<faults, backend, graphVars, storeVars, chatVars, upsert>>

\* await contexts['stdio'].__aexit__(None, None, None): the iteration ends
\* after it, in the "try" or in the "except" branch
CleanupStdioExit(t) ==
    /\ pc[t] = "cleanup_stdio"
    /\ LET name == ContextNames[pos[t]] IN
       /\ stdioExits' = [stdioExits EXCEPT ![name] = @ + 1]
       /\ \E ok \in BOOLEAN :
             IF ok THEN CleanupNext(t) ELSE CleanupExcept(t)
    /\ UNCHANGED <<envAttrs, registryVars, managerVars, ret, sessionExits, cleanups, inv>>
    /\ UNCHANGED <<faults, backend, graphVars, storeVars, chatVars, upsert>>

\* cleanup has awaited an __aexit__ of the contexts of server name
Closed(name) == sessionExits[name] > 0 \/ stdioExits[name] > 0

\* the tasks whose call_tool request on the session of server name is in flight
InFlightOn(name) == {t \in Tasks : pc[t] = "call_tool" /\ inv[t].server = name}

\* a caller invokes a discovered tool callable: without a session the callable
\* returns at once, with one it awaits session.call_tool
ToolCallStart(t) ==
    /\ FreeTask(t)
    /\ \E fn \in tool_functions :
          IF fn.server \notin sessions
          THEN /\ lastCall' = [op |-> "tool_function", server |-> fn.server,
                               tool |-> fn.tool, outcome |-> [kind |-> "none"],
                               result |-> tool_function(fn.server, fn.tool,
                                                        [kind |-> "none"])]
               /\ UNCHANGED <<pc, call, inv>>
          ELSE /\ pc' = [pc EXCEPT ![t] = "call_tool"]
               /\ call' = [call EXCEPT ![t] = "tool_function"]
               /\ inv' = [inv EXCEPT ![t] = [server |-> fn.server, tool |-> fn.tool,
                                             closed |-> Closed(fn.server)]]
               /\ lastCall' = NoCall
    /\ UNCHANGED <<envAttrs, registryVars, managerVars, ret, pos, sessionExits, stdioExits,
                   cleanups>>
    /\ UNCHANGED <<faults, backend, graphVars, storeVars, chatVars, upsert>>

\* session.call_tool returns or raises, and the callable returns; a session
\* whose contexts were exited answers no request
ToolCallReply(t) ==
    /\ pc[t] = "call_tool"
    /\ \E outcome \in CallOutcomes :
          /\ Closed(inv[t].server) => outcome.kind = "raises"
          /\ lastCall' = [op |-> "tool_function", server |-> inv[t].server,
                          tool |-> inv[t].tool, outcome |-> outcome,
                          forwarded_closed |-> inv[t].closed,
                          result |-> tool_function(inv[t].server, inv[t].tool, outcome)]
    /\ pc' = [pc EXCEPT ![t] = "idle"]
    /\ call' = [call EXCEPT ![t] = "none"]
    /\ inv' = [inv EXCEPT ![t] = NoInv]
    /\ UNCHANGED <<envAttrs, registryVars, managerVars, ret, pos, sessionExits, stdioExits,
                   cleanups>>
    /\ UNCHANGED <<faults, backend, graphVars, storeVars, chatVars, upsert>>

\* startup through get_agents_manager, where every stage of every provider's
\* connection can fail, then tool invocations and cleanup calls
InitShutdown ==
    /\ InitSingletons
    /\ envAttrs = EnvReads
    /\ faults = [s \in Servers |-> Stages]
    /\ backend = {"text"}
    /\ st = [t \in Tasks |-> NoState]

NextShutdown ==
    \/ \E t \in Tasks : GetAgentsManagerCall(t)
    \/ \E t \in Tasks : StdioEnter(t)
    \/ \E t \in Tasks : SessionInitialize(t)
    \/ \E t \in Tasks : ListTools(t)
    \/ \E t \in Tasks : ReturnToCaller(t)
    \/ \E t \in Tasks : CleanupCall(t)
    \/ \E t \in Tasks : CleanupSessionExit(t)
    \/ \E t \in Tasks : CleanupStdioExit(t)
    \/ \E t \in Tasks : ToolCallStart(t)
    \/ \E t \in Tasks : ToolCallReply(t)

SpecShutdown == InitShutdown /\ [][NextShutdown]_vars


----------------------------------------------------------------------------
(* servers/kb_vector_tools.py: kb_upsert_text *)

\* the batch_size arguments: the default, small batches, 0 and a negative one
BatchSizes == {100, 1, 2, 3, 0, -1}

\* whether i is produced by range(0, n, step), for a step other than 0
InRange(i, n, step) == step > 0 /\ i < n

\* len(documents[i:i + batch_size]) for a list of n documents
BatchLen(i, n, batch_size) == IF i + batch_size < n THEN batch_size ELSE n - i

\* what the "except Exception" branch returns
UpsertError(msg) == [upserted_count |-> 0, status |-> "error", error |-> msg]

\* kb_upsert_text(documents, batch_size=...) is called with n documents:
\* range() raises ValueError when batch_size is 0
KbUpsertCall(n, batch_size) ==
    /\ upsert.pc \in {"idle", "done"}
    /\ upsert' = IF batch_size = 0
                 THEN [pc |-> "done", documents |-> n, batch_size |-> batch_size, i |-> 0,
                       total_upserted |-> 0, written |-> 0,
                       result |-> UpsertError("range() arg 3 must not be zero")]
                 ELSE [pc |-> "loop", documents |-> n, batch_size |-> batch_size, i |-> 0,
                       total_upserted |-> 0, written |-> 0, result |-> NoResult]
    /\ lastCall' = NoCall
    /\ UNCHANGED <<envAttrs, registryVars, managerVars, taskVars>>
    /\ UNCHANGED <<faults, backend, graphVars, storeVars, chatVars, shutdownVars>>

\* one iteration of the batch loop: pc.inference.embed or index.upsert can
\* raise; otherwise the vectors of the batch are written and counted
KbUpsertBatch ==
    /\ upsert.pc = "loop"
    /\ InRange(upsert.i, upsert.documents, upsert.batch_size)
    /\ \E outcome \in {"ok", "embed_raises", "upsert_raises"} :
          LET size == BatchLen(upsert.i, upsert.documents, upsert.batch_size) IN
          upsert' =
             IF outcome = "ok"
             THEN [upsert EXCEPT !.written = @ + size,
                                 !.total_upserted = @ + size,
                                 !.i = @ + upsert.batch_size]
             ELSE [upsert EXCEPT !.pc = "done",
                                 !.result = UpsertError(outcome)]
    /\ lastCall' = NoCall
    /\ UNCHANGED <<envAttrs, registryVars, managerVars, taskVars>>
    /\ UNCHANGED <<faults, backend, graphVars, storeVars, chatVars, shutdownVars>>

\* the loop is over: the success record is returned
KbUpsertReturn ==
    /\ upsert.pc = "loop"
    /\ ~InRange(upsert.i, upsert.documents, upsert.batch_size)
    /\ upsert' = [upsert EXCEPT !.pc = "done",
                                !.result = [upserted_count |-> upsert.total_upserted,
                                            status |-> "success"]]
    /\ lastCall' = NoCall
    /\ UNCHANGED <<envAttrs, registryVars, managerVars, taskVars>>
    /\ UNCHANGED <<faults, backend, graphVars, storeVars, chatVars, shutdownVars>>

InitUpsert ==
    /\ InitSingletons
    /\ envAttrs = EnvReads
    /\ faults = [s \in Servers |-> {}]
    /\ backend = {"text"}
    /\ st = [t \in Tasks |-> NoState]

NextUpsert ==
    \/ \E n \in 0..MaxDocs, batch_size \in BatchSizes : KbUpsertCall(n, batch_size)
    \/ KbUpsertBatch
    \/ KbUpsertReturn

SpecUpsert == InitUpsert /\ [][NextUpsert]_vars

----------------------------------------------------------------------------
(* Python dicts with string keys *)

Has(d, k) == k \in DOMAIN d

\* d.get(k, default)
Get(d, k, default) == IF k \in DOMAIN d THEN d[k] ELSE default

\* d.update(u)
Update(d, u) == u @@ d

----------------------------------------------------------------------------
(* The LLM backend, as GeminiClient.generate_response returns *)

ReplyText == " 2 completed, 1 planned, 0 blockers\n"
ReplyError == "Error generating response: ServerError: 503"
ReplyFunctionCall == "Function Call: [FunctionCall(name='database_get_user')]"
ReplyLong == "Standup for the platform team.\nAna finished the login migration and starts the billing export today; Ben is still blocked on the staging database credentials and asks for a review of the retry patch."

\* response.text, None when the reply has no text part, the formatted function
\* calls, or the formatted exception
LlmReplies == {ReplyText, PyNone, ReplyFunctionCall, ReplyError, ReplyLong}

\* what generate_content can do: answer with text, without a text part, with
\* function calls, raise, or answer with a text of several lines
BackendOutcomes == {"text", "none", "function_calls", "raises", "long"}

\* what generate_response returns for each of them
GenerateResponse ==
    [text |-> ReplyText, none |-> PyNone, function_calls |-> ReplyFunctionCall,
     raises |-> ReplyError, long |-> ReplyLong]

\* the replies of the backends of set outcomes
RepliesOf(outcomes) == {GenerateResponse[o] : o \in outcomes}

\* the character of text at position i
CharAt(text, i) == SubSeq(text, i, i)

\* the characters str.strip() removes
Whitespace == {" ", "\n", "\t"}

RECURSIVE FirstInk(_, _)
\* the first position from i on that holds no whitespace (Len(text) + 1: none)
FirstInk(text, i) ==
    IF i > Len(text) THEN i
    ELSE IF CharAt(text, i) \in Whitespace THEN FirstInk(text, i + 1)
    ELSE i

RECURSIVE LastInk(_, _)
\* the last position up to i that holds no whitespace (0: none)
LastInk(text, i) ==
    IF i < 1 THEN 0
    ELSE IF CharAt(text, i) \in Whitespace THEN LastInk(text, i - 1)
    ELSE i

\* str.strip(): text without its leading and trailing whitespace
Strip(text) ==
    LET first == FirstInk(text, 1) IN
    IF first > Len(text) THEN ""
    ELSE SubSeq(text, first, LastInk(text, Len(text)))

StripErrorMsg == "'NoneType' object has no attribute 'strip'"
EnvErrorMsg == "'Config' object has no attribute 'DATABASE_URL'"

----------------------------------------------------------------------------
(* AgentsManager.process_workflow *)

\* starting_agent.name
StartingAgent(workflow_type) ==
    IF workflow_type \in {"standup", "meeting", "onboarding", "transcription"}
    THEN "coordinator"
    ELSE "qa_specialist"

ConversationId_perKind(workflow_type) == workflow_type \o "_0"

\* f"{workflow_type}_{datetime.now().timestamp()}"
ConversationId(workflow_type) == workflow_type \o "_" \o ToString(clock)

\* the record process_workflow stores under conversation_id
ConversationRecord(workflow_type, response) ==
    [messages |-> << [role |-> "user", content |-> "Process " \o workflow_type \o " workflow."],
                     [role |-> "assistant", content |-> response] >>,
     agent |-> StartingAgent(workflow_type),
     workflow_type |-> workflow_type]

\* what process_workflow returns once initialized, where response and summary
\* are the replies of its two LLM calls; summary.strip() raises on None and the
\* "except" branch then builds the error record (the "architecture" and
\* "timestamp" entries are left out)
process_workflow(workflow_type, response, summary) ==
    IF summary = PyNone
    THEN [status |-> "error", workflow_type |-> workflow_type, error |-> StripErrorMsg]
    ELSE [status |-> "success", workflow_type |-> workflow_type, result |-> response,
          summary |-> Strip(summary), agent_used |-> StartingAgent(workflow_type),
          conversation_id |-> ConversationId(workflow_type)]

----------------------------------------------------------------------------
(* WorkflowGraph.build_graph: handlers, router and edges *)

valid_workflows == {"standup", "meeting", "qa", "onboarding", "transcription"}

\* f"{workflow_type}_result"
ResultKey(workflow_type) == workflow_type \o "_result"

input_node_handler_keepsKind(state) ==
    [state EXCEPT
        !.metadata = Update(state.metadata,
                            [workflow_started_at |-> Get(state.metadata, "timestamp", "")])]

input_node_handler(state) ==
    [state EXCEPT
        !.workflow_type = IF state.workflow_type \notin valid_workflows
                          THEN "qa" ELSE state.workflow_type,
        !.metadata = Update(state.metadata,
                            [workflow_started_at |-> Get(state.metadata, "timestamp", "")])]

\* reply is what process_simple_query returns when the first branch is taken
coordinator_node_handler(state, reply) ==
    LET workflow_type == IF Falsy(state.workflow_type) THEN "general" ELSE state.workflow_type IN
    IF workflow_type = "general" \/ DOMAIN state.metadata = {}
    THEN [state EXCEPT !.metadata =
            Update(state.metadata,
                   [coordinator_result |-> [status |-> "success", result |-> reply,
                                            handled_by |-> "coordinator"]])]
    ELSE [state EXCEPT !.metadata =
            Update(state.metadata,
                   [coordinator_analysis |-> "Routing to specialist agent",
                    ready_for_specialist |-> TRUE])]

transcribe_node_handler_overwrites(state) ==
    [state EXCEPT !.metadata =
        Update(state.metadata,
               [transcript |-> "[Transcription placeholder]",
                transcription_status |-> IF Has(state.metadata, "transcript")
                                         THEN "provided" ELSE "placeholder",
                transcription_result |->
                    [status |-> "success", message |-> "Transcript ready for processing"],
                ready_for_meeting_node |-> TRUE])]

transcribe_node_handler(state) ==
    LET md1 == IF ~Has(state.metadata, "transcript")
               THEN Update(state.metadata,
                           [transcript |-> "[Transcription placeholder]",
                            transcription_status |-> "placeholder"])
               ELSE Update(state.metadata, [transcription_status |-> "provided"]) IN
    [state EXCEPT !.metadata =
        Update(md1, [transcription_result |->
                        [status |-> "success", message |-> "Transcript ready for processing"],
                     ready_for_meeting_node |-> TRUE])]

\* the workflow kind each specialist handler passes to process_workflow
SpecialistKind ==
    [standup_node |-> "standup", meeting_node |-> "meeting", qa_node |-> "qa",
     onboarding_node |-> "onboarding"]

SpecialistNodes == DOMAIN SpecialistKind

specialist_handler_ok_alwaysCompleted(state, kind, res) ==
    LET md1 == Update(state.metadata,
                      (ResultKey(kind) :> res) @@ [workflow_completed |-> TRUE]) IN
    [state EXCEPT !.metadata =
        IF Has(res, "conversation_id")
        THEN Update(md1, [conversation_id |-> res.conversation_id])
        ELSE md1]

\* the "try" branch of a specialist handler, res being what process_workflow returned
specialist_handler_ok(state, kind, res) ==
    LET md1 == Update(state.metadata,
                      (ResultKey(kind) :> res) @@
                      [workflow_completed |-> (Get(res, "status", PyNone) = "success")]) IN
    [state EXCEPT !.metadata =
        IF Has(res, "conversation_id")
        THEN Update(md1, [conversation_id |-> res.conversation_id])
        ELSE md1]

specialist_handler_except_completes(state, kind, msg) ==
    [state EXCEPT !.metadata =
        Update(state.metadata,
               (ResultKey(kind) :> [status |-> "error", error |-> msg]) @@
               [workflow_completed |-> TRUE])]

\* the "except Exception as e" branch of a specialist handler, msg being str(e)
specialist_handler_except(state, kind, msg) ==
    [state EXCEPT !.metadata =
        Update(state.metadata,
               (ResultKey(kind) :> [status |-> "error", error |-> msg]) @@
               [workflow_completed |-> FALSE])]

summarize_node_handler_exceptSilent(state, reply) ==
    LET workflow_type == state.workflow_type
        result_key == ResultKey(workflow_type) IN
    IF Has(state.metadata, result_key)
    THEN LET result_data == state.metadata[result_key] IN
         IF ~Has(result_data, "summary") /\ reply = PyNone
         THEN state
         ELSE [state EXCEPT !.metadata =
                 Update(state.metadata,
                        [final_summary |-> IF Has(result_data, "summary")
                                           THEN result_data.summary
                                           ELSE Strip(reply),
                         summary_generated |-> TRUE])]
    ELSE [state EXCEPT !.metadata =
            Update(state.metadata,
                   [final_summary |-> workflow_type \o " workflow completed",
                    summary_generated |-> FALSE])]

\* reply is what the summarizer agent returns when it is called
summarize_node_handler(state, reply) ==
    LET workflow_type == state.workflow_type
        result_key == ResultKey(workflow_type) IN
    IF Has(state.metadata, result_key)
    THEN LET result_data == state.metadata[result_key] IN
         IF ~Has(result_data, "summary") /\ reply = PyNone
         THEN [state EXCEPT !.metadata =
                 Update(state.metadata,
                        [final_summary |-> workflow_type \o " workflow completed with errors",
                         summary_generated |-> FALSE])]
         ELSE [state EXCEPT !.metadata =
                 Update(state.metadata,
                        [final_summary |-> IF Has(result_data, "summary")
                                           THEN result_data.summary
                                           ELSE Strip(reply),
                         summary_generated |-> TRUE])]
    ELSE [state EXCEPT !.metadata =
            Update(state.metadata,
                   [final_summary |-> workflow_type \o " workflow completed",
                    summary_generated |-> FALSE])]

workflow_routes ==
    [standup |-> "standup", qa |-> "qa", transcription |-> "transcribe",
     onboarding |-> "onboarding", meeting |-> "meeting"]

router_input_handler_noDefault(state) ==
    LET workflow_type == IF Falsy(state.workflow_type) THEN "general" ELSE state.workflow_type IN
    IF workflow_type \in DOMAIN workflow_routes THEN workflow_routes[workflow_type]
    ELSE workflow_type

router_input_handler(state) ==
    LET workflow_type == IF Falsy(state.workflow_type) THEN "general" ELSE state.workflow_type IN
    IF workflow_type \in DOMAIN workflow_routes THEN workflow_routes[workflow_type] ELSE "qa"

ConditionalEdges_qaUnrouted ==
    [standup |-> "standup_node", qa |-> "summarize_node", transcribe |-> "transcribe_node",
     onboarding |-> "onboarding_node", meeting |-> "meeting_node"]

\* the map of add_conditional_edges("coordinator_node", router_input_handler, ...)
ConditionalEdges ==
    [standup |-> "standup_node", qa |-> "qa_node", transcribe |-> "transcribe_node",
     onboarding |-> "onboarding_node", meeting |-> "meeting_node"]

Edges_qaThroughMeeting ==
    [input_node |-> "coordinator_node",
     standup_node |-> "summarize_node", qa_node |-> "meeting_node",
     onboarding_node |-> "summarize_node", meeting_node |-> "summarize_node",
     transcribe_node |-> "meeting_node",
     summarize_node |-> "END"]

\* the add_edge calls; START leads to input_node
Edges ==
    [input_node |-> "coordinator_node",
     standup_node |-> "summarize_node", qa_node |-> "summarize_node",
     onboarding_node |-> "summarize_node", meeting_node |-> "summarize_node",
     transcribe_node |-> "meeting_node",
     summarize_node |-> "END"]

Nodes == DOMAIN Edges \cup {"coordinator_node"}

NextNode_stopsAtSummarizer(node, state) ==
    IF node = "coordinator_node"
    THEN ConditionalEdges[router_input_handler(state)]
    ELSE IF node = "summarize_node" THEN "halted" ELSE Edges[node]

\* the node the compiled graph runs after node, state being what node returned
NextNode(node, state) ==
    IF node = "coordinator_node"
    THEN ConditionalEdges[router_input_handler(state)]
    ELSE Edges[node]

----------------------------------------------------------------------------
(* WorkflowGraph.execute_workflow: one task per call *)

\* the workflow_type arguments: the valid kinds, None, "", the "general" of the
\* coordinator, and a slash command that names no workflow
WorkflowInputs == valid_workflows \cup {PyNone, "", "general", "report"}

\* the data arguments: an empty payload, and a meeting with its transcript
DataInputs == {EmptyDict, [meeting_id |-> "m1", transcript |-> "Ana: done."]}

UserInputs == {PyNone, "u1"}

\* State(messages=[], workflow_type=..., user_id=..., metadata=data)
InitialState(args) ==
    [workflow_type |-> args.workflow_type, user_id |-> args.user_id,
     metadata |-> args.data, messages |-> <<>>]

\* configurable.thread_id of every graph.ainvoke
ThreadId == "1"

StateFromCheckpoint_mergesMetadata(saved, state) ==
    IF saved = NoCheckpoint THEN state
    ELSE [state EXCEPT !.messages = saved.messages \o state.messages,
                       !.metadata = Update(saved.metadata, state.metadata)]

\* the State a run starts from when saved is what the checkpointer holds for
\* its thread: the fields of the input replace the saved ones, except messages,
\* whose reducer add_messages appends the input's to the saved
StateFromCheckpoint(saved, state) ==
    IF saved = NoCheckpoint THEN state
    ELSE [state EXCEPT !.messages = saved.messages \o state.messages]

\* graph.ainvoke(state, thread_id "1") starts on compiled graph g, whose
\* checkpointer is new when the call has just compiled it
StartRun(t, args, g, compiled) ==
    LET saved == IF compiled THEN NoCheckpoint ELSE checkpoint[g]
        state == StateFromCheckpoint(saved, InitialState(args)) IN
    /\ st' = [st EXCEPT ![t] = state]
    /\ graphOf' = [graphOf EXCEPT ![t] = g]
    /\ resumed' = [resumed EXCEPT ![t] =
                     IF saved = NoCheckpoint THEN NoCheckpoint
                     ELSE [saved |-> TRUE, user_id |-> saved.user_id,
                           messages |-> saved.messages]]
    /\ checkpoint' = [checkpoint EXCEPT ![g] = state]
    /\ graph' = g
    /\ graphInitialized' = TRUE
    /\ pc' = [pc EXCEPT ![t] = "input_node"]

\* the graph runs node for task t, which returns state
RunNode(t, node, state) ==
    /\ st' = [st EXCEPT ![t] = state]
    /\ checkpoint' = [checkpoint EXCEPT ![graphOf[t]] = state]
    /\ path' = [path EXCEPT ![t] = Append(@, node)]
    /\ pc' = [pc EXCEPT ![t] = NextNode(node, state)]
    /\ route' = IF node = "coordinator_node"
                THEN [route EXCEPT ![t] = router_input_handler(state)]
                ELSE route

\* execute_workflow(workflow_type, data, user_id), up to its first await; the
\* lazy WorkflowGraph.initialize is outside the "try"
ExecuteWorkflowCall(t, workflow_type, data, user_id) ==
    /\ FreeTask(t)
    /\ calls < MaxCalls
    /\ calls' = calls + 1
    /\ call' = [call EXCEPT ![t] = "execute_workflow"]
    /\ LET args == [workflow_type |-> workflow_type, data |-> data, user_id |-> user_id] IN
       /\ inp' = [inp EXCEPT ![t] = args]
       /\ IF graphInitialized \/ mgrExists
          THEN \* get_agents_manager returns the existing instance as it is
               /\ IF graphInitialized
                  THEN StartRun(t, args, graph, FALSE)
                  ELSE StartRun(t, args, t, TRUE)
               /\ UNCHANGED <<mgrExists, ret, pos, passes>>
          ELSE IF "GEMINI_API_KEY" \notin envAttrs
          THEN \* AgentsManager() raises
               /\ pc' = [pc EXCEPT ![t] = "raised"]
               /\ UNCHANGED <<graphInitialized, graph, graphOf, resumed, checkpoint, st,
                              mgrExists, ret, pos, passes>>
          ELSE /\ mgrExists' = TRUE
               /\ EnterInitialize(t, "graph_init")
               /\ UNCHANGED <<graphInitialized, graph, graphOf, resumed, checkpoint, st>>
    /\ path' = [path EXCEPT ![t] = <<>>]
    /\ route' = [route EXCEPT ![t] = PyNone]
    /\ raised' = [raised EXCEPT ![t] = "none"]
    /\ result' = [result EXCEPT ![t] = NoResult]
    /\ summarizer' = [summarizer EXCEPT ![t] = "none"]
    /\ inserted' = [inserted EXCEPT ![t] = <<>>]
    /\ lastCall' = NoCall
    /\ UNCHANGED <<envAttrs, faults, backend, sessions, connection_errors, available_tools,
                   tool_functions, session_contexts, procs, attemptsOk, attemptsFailed,
                   mgrInitialized, storeVars, chatVars, shutdownVars, upsert>>

\* get_agents_manager returned to WorkflowGraph.initialize, or raised
GraphInitResume(t) ==
    /\ pc[t] \in {"init_done", "init_raised"}
    /\ ret[t] = "graph_init"
    /\ IF pc[t] = "init_done"
       THEN StartRun(t, inp[t], t, TRUE)
       ELSE /\ pc' = [pc EXCEPT ![t] = "raised"]
            /\ UNCHANGED <<graphInitialized, graph, graphOf, resumed, checkpoint, st>>
    /\ ret' = [ret EXCEPT ![t] = "none"]
    /\ lastCall' = NoCall
    /\ UNCHANGED <<envAttrs, faults, backend, registryVars, managerVars, call, pos, calls, inp,
                   path, route, raised, result, summarizer, inserted, storeVars,
                   chatVars, shutdownVars, upsert>>

InputNode(t) ==
    /\ pc[t] = "input_node"
    /\ RunNode(t, "input_node", input_node_handler(st[t]))
    /\ lastCall' = NoCall
    /\ UNCHANGED <<envAttrs, faults, backend, registryVars, managerVars, call, ret, pos,
                   graphInitialized, graph, graphOf, resumed, summarizer, inserted, calls, inp,
                   raised,
                   result, storeVars, chatVars, shutdownVars, upsert>>

CoordinatorNode(t) ==
    /\ pc[t] = "coordinator_node"
    /\ \E reply \in RepliesOf(backend) :
          RunNode(t, "coordinator_node", coordinator_node_handler(st[t], reply))
    /\ lastCall' = NoCall
    /\ UNCHANGED <<envAttrs, faults, backend, registryVars, managerVars, call, ret, pos,
                   graphInitialized, graph, graphOf, resumed, summarizer, inserted, calls, inp,
                   raised,
                   result, storeVars, chatVars, shutdownVars, upsert>>

TranscribeNode(t) ==
    /\ pc[t] = "transcribe_node"
    /\ RunNode(t, "transcribe_node", transcribe_node_handler(st[t]))
    /\ lastCall' = NoCall
    /\ UNCHANGED <<envAttrs, faults, backend, registryVars, managerVars, call, ret, pos,
                   graphInitialized, graph, graphOf, resumed, summarizer, inserted, calls, inp,
                   raised,
                   result, storeVars, chatVars, shutdownVars, upsert>>

\* process_workflow, initialized, returns to the specialist handler of node
SpecialistTry(t, node) ==
    \E response \in RepliesOf(backend), summary \in RepliesOf(backend) :
        LET kind == SpecialistKind[node] IN
        /\ conversation_histories' =
              (ConversationId(kind) :> ConversationRecord(kind, response))
                  @@ conversation_histories
        /\ clock' = clock + 1
        /\ inserted' = [inserted EXCEPT ![t] = Append(@, ConversationId(kind))]
        /\ RunNode(t, node,
                   specialist_handler_ok(st[t], kind,
                                         process_workflow(kind, response, summary)))
        /\ raised' = raised

\* process_workflow raised in the specialist handler of node
SpecialistExcept(t, node) ==
    /\ RunNode(t, node, specialist_handler_except(st[t], SpecialistKind[node], EnvErrorMsg))
    /\ raised' = [raised EXCEPT ![t] = node]
    /\ UNCHANGED <<storeVars, inserted>>

\* a specialist node starts: process_workflow initializes the manager when it
\* is not initialized yet
SpecialistNode(t) ==
    /\ pc[t] \in SpecialistNodes
    /\ IF mgrInitialized
       THEN /\ SpecialistTry(t, pc[t])
            /\ UNCHANGED <<ret, pos, passes>>
       ELSE /\ EnterInitialize(t, pc[t])
            /\ UNCHANGED <<st, checkpoint, path, route, raised, storeVars, inserted>>
    /\ lastCall' = NoCall
    /\ UNCHANGED <<envAttrs, faults, backend, sessions, connection_errors, available_tools,
                   tool_functions, session_contexts, procs, attemptsOk, attemptsFailed,
                   managerVars, call, graphInitialized, graph, graphOf, resumed, summarizer,
                   calls, inp, result, chatVars, shutdownVars, upsert>>

\* the initialization that process_workflow awaited has returned or raised
SpecialistResume(t) ==
    /\ pc[t] \in {"init_done", "init_raised"}
    /\ ret[t] \in SpecialistNodes
    /\ IF pc[t] = "init_done"
       THEN SpecialistTry(t, ret[t])
       ELSE SpecialistExcept(t, ret[t])
    /\ ret' = [ret EXCEPT ![t] = "none"]
    /\ lastCall' = NoCall
    /\ UNCHANGED <<envAttrs, faults, backend, registryVars, managerVars, call, pos,
                   graphInitialized, graph, graphOf, resumed, summarizer, calls, inp, result,
                   chatVars, shutdownVars, upsert>>

\* the summarize node calls the summarizer agent when the result record of the
\* run's kind has no "summary"
SummarizerCalled(state) ==
    /\ Has(state.metadata, ResultKey(state.workflow_type))
    /\ ~Has(state.metadata[ResultKey(state.workflow_type)], "summary")

SummarizeNode(t) ==
    /\ pc[t] = "summarize_node"
    /\ \E reply \in RepliesOf(backend) :
          /\ RunNode(t, "summarize_node", summarize_node_handler(st[t], reply))
          /\ summarizer' = [summarizer EXCEPT ![t] =
                               IF SummarizerCalled(st[t]) THEN reply ELSE "none"]
    /\ lastCall' = NoCall
    /\ UNCHANGED <<envAttrs, faults, backend, registryVars, managerVars, call, ret, pos,
                   graphInitialized, graph, graphOf, resumed, inserted, calls, inp, raised,
                   result, storeVars, chatVars, shutdownVars, upsert>>

\* what execute_workflow returns after graph.ainvoke
execute_workflow_result(args, state) ==
    [status |-> "success", workflow_type |-> args.workflow_type, user_id |-> args.user_id,
     result |-> state.metadata,
     workflow_completed |-> Get(state.metadata, "workflow_completed", FALSE),
     conversation_id |-> Get(state.metadata, "conversation_id", PyNone)]

\* execute_workflow returns to its caller, or the exception of the lazy
\* initialization reaches the caller
ExecuteWorkflowReturn(t) ==
    /\ pc[t] \in {"END", "raised"}
    /\ call[t] = "execute_workflow"
    /\ result' = [result EXCEPT ![t] =
                    IF pc[t] = "END"
                    THEN execute_workflow_result(inp[t], st[t])
                    ELSE [status |-> "<exception>"]]
    /\ pc' = [pc EXCEPT ![t] = "idle"]
    /\ call' = [call EXCEPT ![t] = "none"]
    /\ st' = [st EXCEPT ![t] = NoState]
    /\ path' = [path EXCEPT ![t] = <<>>]
    /\ route' = [route EXCEPT ![t] = PyNone]
    /\ raised' = [raised EXCEPT ![t] = "none"]
    /\ summarizer' = [summarizer EXCEPT ![t] = "none"]
    /\ inserted' = [inserted EXCEPT ![t] = <<>>]
    /\ graphOf' = [graphOf EXCEPT ![t] = 0]
    /\ resumed' = [resumed EXCEPT ![t] = NoCheckpoint]
    /\ lastCall' = NoCall
    /\ UNCHANGED <<envAttrs, faults, backend, registryVars, managerVars, ret, pos,
                   graphInitialized, graph, checkpoint, calls, inp, storeVars, chatVars, shutdownVars, upsert>>

----------------------------------------------------------------------------
(* The task graph with one execute_workflow call at a time *)

\* no provider fails, or the handshake of the database provider can fail
GraphFaults ==
    { [s \in Servers |-> {}],
      [s \in Servers |-> IF s = Database THEN {"handshake"} ELSE {}] }

\* the backends of a deployment: one whose answers are short or missing, and
\* one that answers at length
Backends == {BackendOutcomes \ {"long"}, {"long"}}

Init ==
    /\ InitProgram
    /\ faults \in GraphFaults
    /\ backend \in Backends

\* the steps of a call that has started
RunStep(t) ==
    \/ StdioEnter(t)
    \/ SessionInitialize(t)
    \/ ListTools(t)
    \/ GraphInitResume(t)
    \/ InputNode(t)
    \/ CoordinatorNode(t)
    \/ TranscribeNode(t)
    \/ SpecialistNode(t)
    \/ SpecialistResume(t)
    \/ SummarizeNode(t)
    \/ ExecuteWorkflowReturn(t)

NoTaskRuns == \A t \in Tasks : pc[t] = "idle"

Next ==
    \/ \E t \in Tasks :
          \E workflow_type \in WorkflowInputs, data \in DataInputs, user_id \in UserInputs :
             NoTaskRuns /\ ExecuteWorkflowCall(t, workflow_type, data, user_id)
    \/ \E t \in Tasks : RunStep(t)

Spec == Init /\ [][Next]_vars

\* every await of a started call returns: the event loop resumes the task
SpecLive == Spec /\ \A t \in Tasks : WF_vars(RunStep(t))

----------------------------------------------------------------------------
(* AgentsManager.continue_conversation *)

NotFoundReply == "Conversation not found"

\* what the LLM can answer in a conversation: any text, the caller's words
\* "Conversation not found" included, no text, or the backend's error text
ChatReplies == {ReplyText, NotFoundReply, PyNone, ReplyError}

ChatMessages == {"and the blockers?"}

\* an id that process_workflow never produced
UnknownId == "qa_unknown"

UserMessage(message) == [role |-> "user", content |-> message]

AppendReply_skipsErrors(messages, response) ==
    IF response = ReplyError THEN messages
    ELSE Append(messages, [role |-> "assistant", content |-> response])

\* history["messages"].append({"role": "assistant", "content": response})
AppendReply(messages, response) ==
    Append(messages, [role |-> "assistant", content |-> response])

\* the conversation store with the messages of record id replaced
WithMessages(store, id, messages) ==
    (id :> [store[id] EXCEPT !.messages = messages]) @@ store

\* the calls on conversation id that wait for their LLM reply
InFlight(id) == {u \in Tasks : pc[u] = "cont_llm" /\ cont[u].id = id}

\* the "try" of continue_conversation up to its await: an unknown id returns at
\* once; a known id gets the user message appended to its record, and the list
\* is handed to the agent
ContinueBody(t, conversation_id, message) ==
    IF ~Has(conversation_histories, conversation_id)
    THEN /\ pc' = [pc EXCEPT ![t] = "idle"]
         /\ call' = [call EXCEPT ![t] = "none"]
         /\ cont' = [cont EXCEPT ![t] = NoCont]
         /\ lastCall' = [op |-> "continue_conversation", id |-> conversation_id,
                         message |-> message, known |-> FALSE, agent_called |-> FALSE,
                         overlapped |-> FALSE, returned |-> NotFoundReply,
                         before |-> conversation_histories,
                         after |-> conversation_histories]
         /\ UNCHANGED storeVars
    ELSE LET messages == Append(conversation_histories[conversation_id].messages,
                                UserMessage(message))
             others == InFlight(conversation_id) IN
         /\ conversation_histories' =
               WithMessages(conversation_histories, conversation_id, messages)
         /\ cont' = [u \in Tasks |->
                       IF u = t
                       THEN [id |-> conversation_id, message |-> message,
                             before |-> conversation_histories[conversation_id].messages,
                             sent |-> messages, overlapped |-> others # {}]
                       ELSE IF u \in others THEN [cont[u] EXCEPT !.overlapped = TRUE]
                       ELSE cont[u]]
         /\ pc' = [pc EXCEPT ![t] = "cont_llm"]
         /\ call' = [call EXCEPT ![t] = "continue_conversation"]
         /\ lastCall' = NoCall
         /\ UNCHANGED clock

\* continue_conversation(conversation_id, message) is called on the singleton
ContinueCall(t, conversation_id, message) ==
    /\ FreeTask(t)
    /\ mgrExists
    /\ continues < MaxContinues
    /\ continues' = continues + 1
    /\ IF mgrInitialized
       THEN /\ ContinueBody(t, conversation_id, message)
            /\ UNCHANGED <<ret, pos, passes>>
       ELSE /\ EnterInitialize(t, "continue_conversation")
            /\ call' = [call EXCEPT ![t] = "continue_conversation"]
            /\ cont' = [cont EXCEPT ![t] = [id |-> conversation_id, message |-> message]]
            /\ lastCall' = NoCall
            /\ UNCHANGED storeVars
    /\ UNCHANGED <<envAttrs, faults, backend, sessions, connection_errors, available_tools,
                   tool_functions, session_contexts, procs, attemptsOk, attemptsFailed,
                   managerVars, graphVars, shutdownVars, upsert>>

\* the lazy initialization of continue_conversation has returned, or raised: the
\* exception reaches the caller
ContinueResume(t) ==
    /\ pc[t] \in {"init_done", "init_raised"}
    /\ ret[t] = "continue_conversation"
    /\ IF pc[t] = "init_done"
       THEN ContinueBody(t, cont[t].id, cont[t].message)
       ELSE /\ pc' = [pc EXCEPT ![t] = "idle"]
            /\ call' = [call EXCEPT ![t] = "none"]
            /\ cont' = [cont EXCEPT ![t] = NoCont]
            /\ lastCall' = [op |-> "continue_conversation", id |-> cont[t].id,
                            message |-> cont[t].message,
                            known |-> Has(conversation_histories, cont[t].id),
                            agent_called |-> FALSE, overlapped |-> FALSE,
                            returned |-> "<exception>",
                            before |-> conversation_histories,
                            after |-> conversation_histories]
            /\ UNCHANGED storeVars
    /\ ret' = [ret EXCEPT ![t] = "none"]
    /\ UNCHANGED <<envAttrs, faults, backend, registryVars, managerVars, pos, graphVars, continues,
                   shutdownVars, upsert>>

\* the agent's reply arrives: it is appended to the record and returned
ContinueReply(t) ==
    /\ pc[t] = "cont_llm"
    /\ \E response \in ChatReplies :
          LET id == cont[t].id
              messages == AppendReply(conversation_histories[id].messages, response) IN
          /\ conversation_histories' = WithMessages(conversation_histories, id, messages)
          /\ lastCall' = [op |-> "continue_conversation", id |-> id,
                          message |-> cont[t].message, known |-> TRUE,
                          agent_called |-> TRUE, overlapped |-> cont[t].overlapped,
                          returned |-> response,
                          before |-> cont[t].before, sent |-> cont[t].sent,
                          after |-> messages]
    /\ pc' = [pc EXCEPT ![t] = "idle"]
    /\ call' = [call EXCEPT ![t] = "none"]
    /\ cont' = [cont EXCEPT ![t] = NoCont]
    /\ UNCHANGED <<envAttrs, faults, backend, registryVars, managerVars, ret, pos, graphVars,
                   clock, continues, shutdownVars, upsert>>

----------------------------------------------------------------------------
(* Concurrent calls: execute_workflow and continue_conversation tasks that   *)
(* the event loop interleaves at their awaits                                *)

\* the calls of two sessions: a standup of one user, a meeting recording of
\* another
ConcurrentInputs ==
    { [workflow_type |-> "standup", data |-> EmptyDict, user_id |-> "u1"],
      [workflow_type |-> "transcription",
       data |-> [meeting_id |-> "m1", transcript |-> "Ana: done."], user_id |-> PyNone] }

InitConcurrent ==
    /\ InitSingletons
    /\ envAttrs = EnvReads
    /\ faults = [s \in Servers |-> {}]
    /\ backend = {"text"}
    /\ st = [t \in Tasks |-> NoState]

NextConcurrent ==
    \/ \E t \in Tasks : \E args \in ConcurrentInputs :
          ExecuteWorkflowCall(t, args.workflow_type, args.data, args.user_id)
    \/ \E t \in Tasks : RunStep(t)
    \/ \E t \in Tasks :
          \E id \in DOMAIN conversation_histories \cup {UnknownId}, message \in ChatMessages :
             ContinueCall(t, id, message)
    \/ \E t \in Tasks : ContinueResume(t)
    \/ \E t \in Tasks : ContinueReply(t)

SpecConcurrent == InitConcurrent /\ [][NextConcurrent]_vars

----------------------------------------------------------------------------
(* The router applied to every State a caller can build *)

RouterStates ==
    { InitialState([workflow_type |-> w, data |-> d, user_id |-> u]) :
        w \in WorkflowInputs, d \in DataInputs, u \in UserInputs }

InitRoute ==
    /\ InitSingletons
    /\ envAttrs = EnvReads
    /\ faults = [s \in Servers |-> {}]
    /\ backend = {"text"}
    /\ st \in [Tasks -> RouterStates]

\* route = router_input_handler(state)
RouterProbe(t) ==
    /\ route[t] = PyNone
    /\ route' = [route EXCEPT ![t] = router_input_handler(st[t])]
    /\ UNCHANGED <<envAttrs, faults, backend, registryVars, managerVars, taskVars, lastCall,
                   graphInitialized, graph, graphOf, resumed, checkpoint, summarizer, inserted,
                   calls, inp,
                   st, path, raised, result, storeVars, chatVars, shutdownVars, upsert>>

NextRoute == \E t \in Tasks : RouterProbe(t)

SpecRoute == InitRoute /\ [][NextRoute]_vars

----------------------------------------------------------------------------
(* Properties of the task graph *)

\* C1: for every workflow_type, None and strings outside the five kinds
\* included, the router returns a key of the conditional-edge map, and for
\* every workflow_type outside the five kinds that key is "qa"
C1_RouteTotalDefaultsToQa ==
    \A t \in Tasks : route[t] # PyNone =>
        /\ route[t] \in DOMAIN ConditionalEdges
        /\ st[t].workflow_type \notin valid_workflows => route[t] = "qa"

\* the router has returned "qa" for None, and for a string that names no kind
C1_Witness ==
    /\ \E t \in Tasks : route[t] = "qa" /\ st[t].workflow_type = PyNone
    /\ \E t \in Tasks : route[t] = "qa" /\ st[t].workflow_type = "report"

\* the nodes task t has executed include the input node
AfterInputNode(t) == Len(path[t]) > 0 /\ path[t][1] = "input_node"

\* C2: in every state of a run after the input node, workflow_type is one of
\* the five kinds: the kind given when that was valid, "qa" otherwise, and no
\* later node changes it
C2_WorkflowTypeValidAfterInput ==
    \A t \in Tasks : AfterInputNode(t) =>
        /\ st[t].workflow_type \in valid_workflows
        /\ st[t].workflow_type = IF inp[t].workflow_type \in valid_workflows
                                 THEN inp[t].workflow_type
                                 ELSE "qa"

\* a run given None has reached END as a "qa" run
C2_Witness ==
    \E t \in Tasks :
        /\ pc[t] = "END"
        /\ inp[t].workflow_type = PyNone
        /\ st[t].workflow_type = "qa"

\* C3: when process_workflow raises in a specialist node, the handler stores
\* {status: "error", error: str(e)} under "<kind>_result", sets
\* workflow_completed to False, and the run goes on to the summarize node and
\* from there to END, both entries being kept
C3_SpecialistExceptionIsRecorded ==
    \A t \in Tasks : raised[t] # "none" =>
        LET kind == SpecialistKind[raised[t]]
            n == Len(path[t]) IN
        /\ Get(st[t].metadata, ResultKey(kind), PyNone) =
               [status |-> "error", error |-> EnvErrorMsg]
        /\ Get(st[t].metadata, "workflow_completed", PyNone) = FALSE
        /\ \/ pc[t] = "summarize_node" /\ path[t][n] = raised[t]
           \/ /\ pc[t] = "END"
              /\ path[t][n] = "summarize_node"
              /\ path[t][n - 1] = raised[t]

\* process_workflow raised in a specialist node and the run has reached END
C3_Witness ==
    \E t \in Tasks : raised[t] \in SpecialistNodes /\ pc[t] = "END"

\* the nodes an edge of the graph leads to from node n
Successors(n) ==
    IF n = "coordinator_node" THEN {ConditionalEdges[k] : k \in DOMAIN ConditionalEdges}
    ELSE IF n \in DOMAIN Edges THEN {Edges[n]}
    ELSE {}

RECURSIVE ReachableIn(_, _)
\* the nodes reached from the nodes of set S by 1..k edges
ReachableIn(S, k) ==
    IF k = 0 THEN {}
    ELSE LET step == UNION {Successors(n) : n \in S} IN
         step \cup ReachableIn(step, k - 1)

Acyclic == \A n \in Nodes : n \notin ReachableIn({n}, Cardinality(Nodes) + 1)

NoNodeTwice ==
    \A t \in Tasks : \A i, j \in 1..Len(path[t]) : i # j => path[t][i] # path[t][j]

\* C4: the graph has no cycle, no node is executed twice in a run, and every
\* run that is at the input node eventually reaches END, for every kind and
\* every outcome of the agent calls
C4_RunTerminates ==
    /\ [](Acyclic /\ NoNodeTwice)
    /\ \A t \in Tasks : (pc[t] = "input_node") ~> (pc[t] = "END")

\* a run whose agent call returned an error record has reached END
C4_Witness ==
    \E t \in Tasks :
        /\ pc[t] = "END"
        /\ raised[t] = "none"
        /\ Get(st[t].metadata, "workflow_completed", PyNone) = FALSE

\* C5 as stated: every run from the input node to END takes at most 4 hops,
\* for every kind, transcription included
C5_AtMostFourHops ==
    \A t \in Tasks : pc[t] = "END" => Len(path[t]) <= 4

\* C5, amended: a run from the input node to END takes at most 4 hops for every
\* kind other than transcription, and at most 5 for transcription
C5_HopsByKind ==
    \A t \in Tasks : pc[t] = "END" =>
        Len(path[t]) <= IF st[t].workflow_type = "transcription" THEN 5 ELSE 4

\* a transcription run has reached END through the transcribe and meeting nodes
C5_Witness ==
    \E t \in Tasks :
        /\ pc[t] = "END"
        /\ path[t] = <<"input_node", "coordinator_node", "transcribe_node",
                       "meeting_node", "summarize_node">>

----------------------------------------------------------------------------
(* Properties of the conversation store and of concurrent runs (SpecConcurrent) *)

\* a continue_conversation call has just returned
Continued == lastCall.op = "continue_conversation"

\* C11 as stated: a call on an unknown id returns the not-found outcome without
\* calling the agent and without changing any record, and the caller can tell
\* that outcome from an assistant reply: no call on a known id returns it
C11_NotFoundIsDistinct ==
    Continued =>
        IF lastCall.known
        THEN lastCall.returned # NotFoundReply
        ELSE /\ lastCall.returned = NotFoundReply
             /\ ~lastCall.agent_called
             /\ lastCall.after = lastCall.before

\* C12: a call on a known id that no other call on that id overlapped leaves
\* the record's history 2 entries longer: the user message, then the assistant
\* entry that holds what the call returned, whatever the LLM call gave
C12_HistoryGrowsByTwo ==
    (Continued /\ lastCall.known /\ ~lastCall.overlapped) =>
        /\ lastCall.after = lastCall.before \o
                               << UserMessage(lastCall.message),
                                  [role |-> "assistant", content |-> lastCall.returned] >>
        /\ Len(lastCall.after) = Len(lastCall.before) + 2

\* a call on a known id, alone, whose LLM call failed
C12_Witness ==
    /\ Continued
    /\ lastCall.known
    /\ ~lastCall.overlapped
    /\ lastCall.returned = ReplyError
    /\ Len(lastCall.after) = Len(lastCall.before) + 2

\* C13 as stated: in every record every user message that is not the last entry
\* is immediately followed by an assistant reply, and a reply is appended right
\* after the history it was generated from, which ends in the call's own user
\* message
C13_RecordUpdateIsExclusive ==
    /\ \A id \in DOMAIN conversation_histories :
          LET m == conversation_histories[id].messages IN
          \A i \in 1..(Len(m) - 1) : m[i].role = "user" => m[i + 1].role = "assistant"
    /\ (Continued /\ lastCall.known) =>
          /\ lastCall.sent[Len(lastCall.sent)] = UserMessage(lastCall.message)
          /\ lastCall.after = AppendReply(lastCall.sent, lastCall.returned)

\* the metadata keys a node writes
KeysWrittenBy(node) ==
    CASE node = "input_node" -> {"workflow_started_at"}
      [] node = "coordinator_node" ->
            {"coordinator_result", "coordinator_analysis", "ready_for_specialist"}
      [] node = "transcribe_node" ->
            {"transcript", "transcription_status", "transcription_result",
             "ready_for_meeting_node"}
      [] node \in SpecialistNodes ->
            {ResultKey(SpecialistKind[node]), "workflow_completed", "conversation_id"}
      [] node = "summarize_node" -> {"final_summary", "summary_generated"}
      [] OTHER -> {}

\* the kind the input node makes of a workflow_type argument
KindOf(workflow_type) == IF workflow_type \in valid_workflows THEN workflow_type ELSE "qa"

\* the State of the run of task t holds what its own call was given and what
\* its own nodes wrote, and nothing else
OwnsItsState(t) ==
    LET md == st[t].metadata
        data == inp[t].data
        own == UNION {KeysWrittenBy(path[t][i]) : i \in 1..Len(path[t])} IN
    /\ st[t].user_id = inp[t].user_id
    /\ st[t].workflow_type = IF path[t] = <<>> THEN inp[t].workflow_type
                             ELSE KindOf(inp[t].workflow_type)
    /\ st[t].messages = <<>>
    /\ DOMAIN md \subseteq (DOMAIN data \cup own)
    /\ \A k \in DOMAIN data : Has(md, k) /\ md[k] = data[k]
    /\ \A node \in SpecialistNodes :
          LET key == ResultKey(SpecialistKind[node]) IN
          (Has(md, key) /\ Has(md[key], "conversation_id")) =>
              /\ md["conversation_id"] = md[key].conversation_id
              /\ conversation_histories[md[key].conversation_id].workflow_type
                    = SpecialistKind[node]
              /\ \E i \in 1..Len(path[t]) : path[t][i] = node

\* what execute_workflow returned to task t is its own run's
OwnsItsResult(t) ==
    result[t].status = "success" =>
        /\ result[t].workflow_type = inp[t].workflow_type
        /\ result[t].user_id = inp[t].user_id
        /\ \A k \in DOMAIN inp[t].data :
              Has(result[t].result, k) /\ result[t].result[k] = inp[t].data[k]
        /\ \A k \in DOMAIN result[t].result :
              \/ k \in DOMAIN inp[t].data
              \/ \E node \in Nodes : k \in KeysWrittenBy(node)
        /\ \A node \in SpecialistNodes :
              Has(result[t].result, ResultKey(SpecialistKind[node])) =>
                  \/ KindOf(inp[t].workflow_type) = SpecialistKind[node]
                  \/ /\ KindOf(inp[t].workflow_type) = "transcription"
                     /\ node = "meeting_node"

\* C14: each run owns its State. Whatever runs execute concurrently, and
\* although they share the thread of one checkpointer, the nodes of a run read
\* and the call returns only what that run was given and what its own nodes
\* wrote
C14_RunOwnsItsState ==
    \A t \in Tasks :
        /\ graphOf[t] # 0 => OwnsItsState(t)
        /\ OwnsItsResult(t)

\* two runs of different callers execute on the same compiled graph, the later
\* one started from the checkpoint that the earlier one had saved, and both have
\* executed their specialist node
C14_Witness ==
    \E t, u \in Tasks :
        /\ t # u
        /\ graphOf[t] # 0
        /\ graphOf[u] = graphOf[t]
        /\ resumed[u] # NoCheckpoint
        /\ inp[t].workflow_type # inp[u].workflow_type
        /\ \E node \in SpecialistNodes : Has(st[t].metadata, ResultKey(SpecialistKind[node]))
        /\ \E node \in SpecialistNodes : Has(st[u].metadata, ResultKey(SpecialistKind[node]))

\* C15 as stated: a run is started from a checkpoint only when that checkpoint
\* was saved by a call of the same caller-supplied identifier; calls with
\* different identifiers share no checkpointed state
C15_CheckpointKeyedByCaller ==
    \A t \in Tasks : resumed[t] # NoCheckpoint => resumed[t].user_id = inp[t].user_id

\* C17 as stated: when the specialist node of a run recorded a result with
\* status "error", the value execute_workflow returns does not have status
\* "success", and it carries a summary string
C17_FailedRunIsNotSuccess ==
    \A t \in Tasks : \A node \in SpecialistNodes :
        LET key == ResultKey(SpecialistKind[node]) IN
        (/\ Has(result[t], "result")
         /\ Has(result[t].result, key)
         /\ result[t].result[key].status = "error")
        => /\ result[t].status # "success"
           /\ Has(result[t].result, "final_summary")

\* C18 as stated: when the LLM backend call that process_workflow makes for the
\* specialist fails, the "<kind>_result" record of the run has status "error"
\* and workflow_completed is False
C18_BackendFailureIsError ==
    \A t \in Tasks : \A node \in SpecialistNodes :
        LET key == ResultKey(SpecialistKind[node]) IN
        (/\ Has(st[t].metadata, key)
         /\ Get(st[t].metadata[key], "result", PyNone) = ReplyError)
        => /\ st[t].metadata[key].status = "error"
           /\ st[t].metadata["workflow_completed"] = FALSE

\* C19 as stated: no exception escapes execute_workflow; whatever fails, the
\* caller gets a result record with a status
C19_NoExceptionEscapes ==
    \A t \in Tasks : result[t].status # "<exception>"

\* the LLM call of the summarize node failed: the backend returned its error
\* text, or no text at all
SummarizationFailed(t) == summarizer[t] \in {ReplyError, PyNone}

\* C20 as stated: when the summarization call fails, final_summary is exactly
\* "<kind> workflow completed"
C20_CannedSummaryOnFailure ==
    \A t \in Tasks : SummarizationFailed(t) =>
        st[t].metadata["final_summary"] = st[t].workflow_type \o " workflow completed"

\* the summary bound: the "max 150 chars" of the summarization prompt
SummaryBound == 150

\* text has no line break
SingleLine(text) == \A i \in 1..Len(text) : CharAt(text, i) # "\n"

\* C21 as stated: at END final_summary is a single line no longer than the
\* summary bound, whatever text the summarization call or the specialist
\* returned
C21_FinalSummaryBounded ==
    \A t \in Tasks : pc[t] = "END" =>
        /\ Len(st[t].metadata["final_summary"]) <= SummaryBound
        /\ SingleLine(st[t].metadata["final_summary"])

\* C30 as stated: when the backend answers the agent call of a specialist with
\* a tool-call request, the request is executed through the registry and its
\* result is fed back in a follow-up turn before the specialist's result is
\* produced: the result of a specialist is never the request itself
C30_ToolCallIsExecuted ==
    \A t \in Tasks : \A node \in SpecialistNodes :
        LET key == ResultKey(SpecialistKind[node]) IN
        (Has(st[t].metadata, key) /\ Has(st[t].metadata[key], "result")) =>
            st[t].metadata[key].result # ReplyFunctionCall

\* node is among the nodes task t has executed
Executed(t, node) == \E i \in 1..Len(path[t]) : path[t][i] = node

\* C22 as stated: for every kind, transcription included, the summarize node
\* derives final_summary from the result record of the specialist that executed
\* in the run: that record is the one it reads, and final_summary is that
\* record's summary when it has one
C22_SummaryOfExecutedSpecialist ==
    \A t \in Tasks : \A node \in SpecialistNodes :
        (pc[t] = "END" /\ Executed(t, node)) =>
            LET key == ResultKey(SpecialistKind[node])
                rec == st[t].metadata[key] IN
            /\ ResultKey(st[t].workflow_type) = key
            /\ Has(rec, "summary") => st[t].metadata["final_summary"] = rec.summary

\* sequence old is a prefix of sequence new
IsPrefix(old, new) == Len(old) <= Len(new) /\ SubSeq(new, 1, Len(old)) = old

\* C23: the message list of a conversation record is append-only. Whatever
\* execute_workflow and continue_conversation calls run, every step keeps each
\* record and leaves its list with the messages it had, in the same order, as
\* a prefix
C23_MessagesAppendOnly ==
    [][\A id \in DOMAIN conversation_histories :
          /\ id \in DOMAIN conversation_histories'
          /\ IsPrefix(conversation_histories[id].messages,
                      conversation_histories'[id].messages)]_vars

\* two continue_conversation calls have extended the record of one run, and a
\* later run has stored its own record
C23_Witness ==
    \E id, other \in DOMAIN conversation_histories :
        /\ id # other
        /\ Len(conversation_histories[id].messages) = 6
        /\ conversation_histories[id].messages[3].role = "user"
        /\ conversation_histories[id].messages[4].role = "assistant"

\* C24 as stated: every run that reaches END has stored exactly one record in
\* conversation_histories, for every kind and also when the payload is empty,
\* and the conversation_id that execute_workflow returns is the key of that
\* record
C24_OneInsertionPerRun ==
    \A t \in Tasks : pc[t] = "END" =>
        /\ Len(inserted[t]) = 1
        /\ execute_workflow_result(inp[t], st[t]).conversation_id = inserted[t][1]
        /\ Has(conversation_histories, inserted[t][1])

----------------------------------------------------------------------------
(* Properties of the registry (SpecRegistry) *)

\* the names in status().failed
FailedNames == {p[1] : p \in get_connection_status.failed}

\* one initialization, finished, in which exactly one provider failed
OneFailedOfOnePass ==
    /\ passes = 1
    /\ mgrInitialized
    /\ Cardinality({s \in Servers : attemptsFailed[s] > 0}) = 1

\* C6: fault isolation across providers. After the one initialization in which
\* exactly one provider failed, every provider has been attempted, connected
\* contains every other provider and failed contains exactly the failing one.
C6_FaultIsolation ==
    OneFailedOfOnePass =>
        LET f == CHOOSE s \in Servers : attemptsFailed[s] > 0 IN
        /\ \A s \in Servers : attemptsOk[s] + attemptsFailed[s] = 1
        /\ (Servers \ {f}) \subseteq get_connection_status.connected
        /\ FailedNames = {f}

\* the first provider of the loop failed and the one after it is connected
C6_Witness ==
    /\ OneFailedOfOnePass
    /\ attemptsFailed[ServerOrder[1]] = 1
    /\ ServerOrder[2] \in get_connection_status.connected

\* C7: a provider whose handshake or catalog fetch failed is listed in failed
\* and is not listed in connected.
C7_FailedIsNotConnected ==
    \A s \in Servers :
        connection_errors[s] \in {ErrHandshake, ErrCatalog} =>
            /\ s \in FailedNames
            /\ s \notin get_connection_status.connected

\* C8: a tool invocation directed at a provider that is Failed returns
\* {error: not connected, details: the provider's recorded error}.
C8_FailedProviderCallReturnsNotConnected ==
    (lastCall.op = "tool_function" /\ lastCall.server \in FailedNames) =>
        lastCall.result = [error |-> NotConnectedMsg(lastCall.server),
                           details |-> connection_errors[lastCall.server]]

\* C9: a tool invocation on a connected provider never raises; when
\* session.call_tool fails it returns the provider's message verbatim with
\* the tool and server names, and otherwise the payload of the reply.
C9_ConnectedCallNeverRaises ==
    (lastCall.op = "tool_function" /\ lastCall.server \in sessions) =>
        /\ "raised" \notin DOMAIN lastCall.result
        /\ IF lastCall.outcome.kind = "raises"
           THEN lastCall.result = [error |-> lastCall.outcome.text,
                                   tool |-> lastCall.tool, server |-> lastCall.server]
           ELSE /\ ~({"tool", "server"} \subseteq DOMAIN lastCall.result)
                /\ lastCall.result \in {JsonLoads(lastCall.outcome.text),
                                        [result |-> lastCall.outcome.text]}

\* call_tool failed on a connected provider
C9_Witness ==
    /\ lastCall.op = "tool_function"
    /\ lastCall.server \in sessions
    /\ lastCall.outcome.kind = "raises"
    /\ "error" \in DOMAIN lastCall.result

\* C10: get_tools_for_agent(tags) returns exactly the discovered tools whose
\* owning server is in tags, and all of them when tags is empty or None.
C10_ToolsOfTaggedServers ==
    lastCall.op = "get_tools_for_agent" =>
        lastCall.result =
            IF ListFalsy(lastCall.tags)
            THEN tool_functions
            ELSE {fn \in tool_functions : InList(fn.server, lastCall.tags)}

\* C16 as stated: under any interleaving of the calls that arrive before the
\* initialization has finished, initialize_mcp_servers runs at most once and
\* each provider process is started at most once
C16_InitializeOnce ==
    /\ passes <= 1
    /\ \A s \in Servers : procs[s] <= 1

----------------------------------------------------------------------------
(* Properties of shutdown and of tool invocations (SpecShutdown) *)

\* a cleanup call has just returned
CleanupReturned == lastCall.op = "cleanup"

\* some cleanup call has run to its end
CleanupHasRun == cleanups > Cardinality({t \in Tasks : call[t] = "cleanup"})

\* C25 as stated: after cleanup() returns, every provider process that was
\* started during initialization has been closed, the ones whose handshake or
\* catalog fetch failed included
C25_CleanupClosesEveryProcess ==
    CleanupReturned =>
        \A s \in Servers : procs[s] > 0 => stdioExits[s] >= 1

\* C26: shutdown is best-effort. No error of a close is raised to the caller of
\* cleanup(), and when cleanup() returns the close of every stored provider has
\* been attempted, whatever the closes before it did
C26_CleanupIsBestEffort ==
    CleanupReturned =>
        /\ ~lastCall.raised
        /\ \A s \in session_contexts : sessionExits[s] >= 1

\* the close of the first provider raised, and the one call of cleanup went on
\* to the second provider and returned
C26_Witness ==
    /\ CleanupReturned
    /\ cleanups = 1
    /\ session_contexts = Servers
    /\ sessionExits[ServerOrder[1]] = 1
    /\ stdioExits[ServerOrder[1]] = 0
    /\ sessionExits[ServerOrder[2]] = 1

\* C27 as stated: after cleanup() has run, status().connected lists no
\* provider, and no tool invocation is forwarded to a session whose transport
\* has been closed
C27_NotConnectedAfterCleanup ==
    /\ CleanupHasRun => get_connection_status.connected = {}
    /\ \A t \in Tasks : pc[t] = "call_tool" => ~inv[t].closed

\* C28 as stated: a second cleanup() closes no transport again: the close of
\* each stored context is performed at most once
C28_CleanupIdempotent ==
    \A s \in Servers : sessionExits[s] <= 1 /\ stdioExits[s] <= 1

\* C29 as stated: at most one call_tool request is in flight on the session of
\* a provider at any time
C29_OneCallInFlight ==
    \A s \in Servers : Cardinality(InFlightOn(s)) <= 1

\* C31: get_connection_status() is a pure read and idempotent. A call changes
\* no field of the registry, and a call that follows another with no step
\* between them returns the same connected list, failed map and total_tools
C31_StatusIsPureAndIdempotent ==
    [][lastCall'.op = "get_connection_status" =>
          /\ UNCHANGED registryVars
          /\ lastCall.op = "get_connection_status" => lastCall'.result = lastCall.result]_vars

\* the second of two status calls in a row, with a provider connected, an error
\* recorded and tools discovered
C31_Witness ==
    /\ lastCall.op = "get_connection_status"
    /\ lastCall.n = 2
    /\ lastCall.result.connected # {}
    /\ lastCall.result.failed # {}
    /\ lastCall.result.total_tools > 0

----------------------------------------------------------------------------
(* Properties of the order of the nodes and of their records *)

\* the nodes of a run of kind workflow_type, in the order of the edges
NodeOrder(workflow_type) ==
    <<"input_node", "coordinator_node">>
        \o (IF workflow_type = "transcription" THEN <<"transcribe_node", "meeting_node">>
            ELSE <<workflow_type \o "_node">>)
        \o <<"summarize_node">>

\* C32: within one run the nodes execute one at a time and start in the order
\* input, coordinator, transcribe for a transcription, specialist, summarize:
\* the nodes executed so far are the first ones of that order, and the one node
\* that is active is the next of it
C32_NodesRunInOrder ==
    \A t \in Tasks : graphOf[t] # 0 =>
        LET order == NodeOrder(KindOf(inp[t].workflow_type))
            active == IF pc[t] \in {"mcp_start", "mcp_handshake", "mcp_list", "init_done",
                                     "init_raised"}
                      THEN ret[t] ELSE pc[t] IN
        /\ IsPrefix(path[t], order)
        /\ IF Len(path[t]) < Len(order)
           THEN active = order[Len(path[t]) + 1]
           ELSE active = "END"

\* the meeting node of a transcription run is active, after the transcribe
\* node, and the initialization it awaited has raised
C32_Witness ==
    \E t \in Tasks :
        /\ path[t] = <<"input_node", "coordinator_node", "transcribe_node">>
        /\ pc[t] = "init_raised"
        /\ ret[t] = "meeting_node"

\* C33 as stated: the upserted_count that kb_upsert_text returns is the number
\* of documents the call has written to the index, for every document list and
\* batch size, also when a later batch fails after earlier ones were written
C33_UpsertedCountIsWritten ==
    upsert.pc = "done" => upsert.result.upserted_count = upsert.written

\* C34 as stated: the agent that process_workflow invokes for kind k and reports
\* as agent_used is the specialist profile of k, "<k>_specialist", for standup,
\* meeting, qa and onboarding
C34_AgentOfKind ==
    \A t \in Tasks : \A node \in SpecialistNodes :
        LET kind == SpecialistKind[node]
            key == ResultKey(kind) IN
        (Has(st[t].metadata, key) /\ Has(st[t].metadata[key], "agent_used")) =>
            /\ st[t].metadata[key].agent_used = kind \o "_specialist"
            /\ conversation_histories[st[t].metadata[key].conversation_id].agent
                  = kind \o "_specialist"

\* C35: at END workflow_completed is True exactly when the result record that
\* the executed specialist node stored has status "success", and the value
\* execute_workflow returns carries that same flag
C35_CompletedIffSuccess ==
    \A t \in Tasks : \A node \in SpecialistNodes :
        LET key == ResultKey(SpecialistKind[node]) IN
        /\ (pc[t] = "END" /\ Executed(t, node)) =>
              /\ st[t].metadata["workflow_completed"]
                    = (st[t].metadata[key].status = "success")
              /\ execute_workflow_result(inp[t], st[t]).workflow_completed
                    = st[t].metadata["workflow_completed"]
        /\ (Has(result[t], "result") /\ Has(result[t].result, key)) =>
              result[t].workflow_completed = (result[t].result[key].status = "success")

\* execute_workflow has returned workflow_completed False for a run whose
\* specialist got the error record of process_workflow
C35_Witness ==
    \E t \in Tasks :
        /\ Has(result[t], "result")
        /\ result[t].workflow_completed = FALSE
        /\ Has(result[t].result, "qa_result")
        /\ result[t].result["qa_result"].status = "error"
        /\ result[t].result["qa_result"].error = StripErrorMsg

\* C36: every run that reaches END has final_summary and summary_generated
\* set, and summary_generated is True only when final_summary is the summary of
\* the record the node read or the stripped reply of its summarization call;
\* otherwise final_summary is one of the two fixed texts
C36_FinalSummaryAlwaysSet ==
    \A t \in Tasks : pc[t] = "END" =>
        LET md == st[t].metadata
            key == ResultKey(st[t].workflow_type) IN
        /\ Has(md, "final_summary")
        /\ Has(md, "summary_generated")
        /\ md["final_summary"] # PyNone
        /\ IF md["summary_generated"]
           THEN \/ Has(md[key], "summary") /\ md["final_summary"] = md[key].summary
                \/ /\ ~Has(md[key], "summary")
                   /\ summarizer[t] \in RepliesOf(backend) \ {PyNone}
                   /\ md["final_summary"] = Strip(summarizer[t])
           ELSE md["final_summary"] \in
                   {st[t].workflow_type \o " workflow completed",
                    st[t].workflow_type \o " workflow completed with errors"}

\* the summarization call of a run returned no text, the node took its
\* "except" branch, and the run has reached END
C36_Witness ==
    \E t \in Tasks :
        /\ pc[t] = "END"
        /\ summarizer[t] = PyNone
        /\ st[t].metadata["summary_generated"] = FALSE
        /\ st[t].metadata["final_summary"] = "qa workflow completed with errors"

\* C37 as stated: when the result record of the specialist that executed has
\* a "summary", the summarize node stores that summary as final_summary and
\* makes no call to the summarizer agent; the summarizer agent is called only
\* in runs whose specialist record has no "summary"
C37_SummaryCopiedWithoutCall ==
    \A t \in Tasks : \A node \in SpecialistNodes :
        (pc[t] = "END" /\ Executed(t, node)) =>
            LET rec == st[t].metadata[ResultKey(SpecialistKind[node])] IN
            /\ Has(rec, "summary") =>
                  /\ st[t].metadata["final_summary"] = rec.summary
                  /\ summarizer[t] = "none"
            /\ summarizer[t] # "none" => ~Has(rec, "summary")

\* C38: once the transcribe node has run, metadata holds the transcript the
\* caller supplied, unchanged, with transcription_status "provided", or, when
\* the caller supplied none, the placeholder with status "placeholder"; the
\* node that runs next is the meeting node and the one after it is summarize
C38_TranscriptKept ==
    \A t \in Tasks : Executed(t, "transcribe_node") =>
        LET md == st[t].metadata
            n == Len(path[t])
            i == CHOOSE k \in 1..n : path[t][k] = "transcribe_node" IN
        /\ IF Has(inp[t].data, "transcript")
           THEN /\ md["transcript"] = inp[t].data["transcript"]
                /\ md["transcription_status"] = "provided"
           ELSE /\ md["transcript"] = "[Transcription placeholder]"
                /\ md["transcription_status"] = "placeholder"
        /\ i < n => path[t][i + 1] = "meeting_node"
        /\ i + 1 < n => path[t][i + 2] = "summarize_node"
        /\ pc[t] = "END" => n = i + 2

\* a run whose caller supplied a transcript has gone through the transcribe
\* node, the meeting node and the summarize node
C38_Witness ==
    \E t \in Tasks :
        /\ pc[t] = "END"
        /\ Has(inp[t].data, "transcript")
        /\ path[t] = <<"input_node", "coordinator_node", "transcribe_node",
                       "meeting_node", "summarize_node">>
        /\ st[t].metadata["transcript"] = "Ana: done."
        /\ st[t].metadata["transcription_status"] = "provided"

=============================================================================
